---- MODULE Spec2Model ----
(***************************************************************************)
(* Model of src/app.py: the contract-extraction pipeline.                  *)
(*                                                                         *)
(*   extraer_texto_con_ocr  per-page text acquisition with OCR fallback    *)
(*   analizar_contrato      field extraction over a fixed pattern table    *)
(*   process_files          batch orchestration (uploads, zip archives)    *)
(*   download_excel         hand-off of the stored spreadsheet             *)
(*                                                                         *)
(* Text is a sequence of characters.  A character is the string that holds *)
(* it ("a", " ", "\n", "\f"); a character that cannot be written in a       *)
(* string of this module is the string of its code point ("U+00A0").  An   *)
(* optional value (Python None or a value) is a sequence of length 0 or 1. *)
(*                                                                         *)
(* The external libraries are the environment: what fitz extracts from a   *)
(* page, whether rendering or tesseract raises, what re.search finds for   *)
(* a pattern, whether a zip member can be read.  Their results are inputs  *)
(* of the model, drawn from bounded sets.                                  *)
(***************************************************************************)
EXTENDS Integers, Sequences, FiniteSets, TLC

VARIABLES
    \* ---- process_files / download_excel
    request,          \* [tiene_clave, files]: the upload of the request in
                      \* progress or last served, files as read so far
    pc,               \* position of process_files
    i,                \* number of top-level files the loop has taken
    j,                \* number of entries taken from the open archive, 0 outside
    resultados_ok,    \* list of records
    errores_proceso,  \* list of error strings
    pos_ok,           \* history: input position <<i, j>> of each record
    pos_err,          \* history: input position <<i, j>> of each error
    respuesta,        \* optional JSON response of /process to that request
    session,          \* optional session['excel_data'] of the client
    descarga,         \* optional last response of /download
    leidas,           \* history: units read by the requests served before
    \* ---- extraer_texto_con_ocr
    stream_pdf,       \* the document: [abre, paginas]
    pc_ocr,           \* position of extraer_texto_con_ocr
    num_pagina,       \* index of the next page
    texto_completo,   \* accumulated text
    llamadas,         \* history: library calls made for OCR, in order
    retorno,          \* optional returned tuple [texto, error]
    \* ---- analizar_contrato
    coincidencias,    \* per pattern, the optional result of re.search
    datos_extraidos   \* optional returned mapping

vars_lote == <<request, pc, i, j, resultados_ok, errores_proceso, pos_ok, pos_err,
               respuesta, session, descarga, leidas>>
vars_ocr == <<stream_pdf, pc_ocr, num_pagina, texto_completo, llamadas, retorno>>
vars_an == <<coincidencias, datos_extraidos>>
vars == <<vars_lote, vars_ocr, vars_an>>

(***************************************************************************)
(* Bounds of the model.                                                    *)
(***************************************************************************)
\* length of a captured group in the inputs of analizar_contrato
MaxLen == 3
\* pages of a document in the inputs of extraer_texto_con_ocr
MaxPaginas == 2
\* size of the input of a behaviour: top-level files plus archive entries,
\* over all the requests
MaxUnidades == 4

(***************************************************************************)
(* Python string operations used by the code.                              *)
(***************************************************************************)
Nada == <<>>

Algun(x) == <<x>>

RECURSIVE Rep(_, _)
Rep(c, n) == IF n <= 0 THEN <<>> ELSE <<c>> \o Rep(c, n - 1)

\* the characters for which str.isspace() is true
EspaciosPython ==
    {"\t", "\n", "U+000B", "\f", "\r", "U+001C", "U+001D", "U+001E", "U+001F", " ",
     "U+0085", "U+00A0", "U+1680", "U+2000", "U+2001", "U+2002", "U+2003", "U+2004",
     "U+2005", "U+2006", "U+2007", "U+2008", "U+2009", "U+200A", "U+2028", "U+2029",
     "U+202F", "U+205F", "U+3000"}

\* the whitespace of str.strip() and str.split()
EsEspacio(c) == c \in EspaciosPython

\* the first index from k on that holds no whitespace, Len(s) + 1 if none
RECURSIVE primero_visible(_, _)
primero_visible(s, k) ==
    IF k > Len(s) \/ ~EsEspacio(s[k]) THEN k ELSE primero_visible(s, k + 1)

\* the last index up to k that holds no whitespace, 0 if none
RECURSIVE ultimo_visible(_, _)
ultimo_visible(s, k) ==
    IF k < 1 \/ ~EsEspacio(s[k]) THEN k ELSE ultimo_visible(s, k - 1)

\* str.strip(): remove leading and trailing whitespace
strip(s) == SubSeq(s, primero_visible(s, 1), ultimo_visible(s, Len(s)))

\* str.split() with no argument: the maximal runs of non-whitespace
RECURSIVE split_desde(_, _, _)
split_desde(s, k, palabra) ==
    IF k > Len(s)
    THEN IF palabra = <<>> THEN <<>> ELSE <<palabra>>
    ELSE IF EsEspacio(s[k])
         THEN IF palabra = <<>>
              THEN split_desde(s, k + 1, <<>>)
              ELSE <<palabra>> \o split_desde(s, k + 1, <<>>)
         ELSE split_desde(s, k + 1, Append(palabra, s[k]))

split(s) == split_desde(s, 1, <<>>)

\* sep.join(partes)
RECURSIVE join(_, _)
join(sep, partes) ==
    IF partes = <<>> THEN <<>>
    ELSE IF Len(partes) = 1 THEN partes[1]
         ELSE partes[1] \o sep \o join(sep, Tail(partes))

\* str.endswith(sufijo)
endswith(s, sufijo) ==
    /\ Len(s) >= Len(sufijo)
    /\ SubSeq(s, Len(s) - Len(sufijo) + 1, Len(s)) = sufijo

\* str.startswith(prefijo)
startswith(s, prefijo) ==
    /\ Len(s) >= Len(prefijo)
    /\ SubSeq(s, 1, Len(prefijo)) = prefijo

(***************************************************************************)
(* analizar_contrato                                                       *)
(***************************************************************************)
\* The pattern table, in declaration order: key and number of capture groups
\* of each regular expression; opcional is the set of groups that may not
\* take part in a match.
patrones == <<
    [clave |-> "num_contrato",                    grupos |-> 1, opcional |-> {}],
    [clave |-> "fecha_suscripcion_contrato",      grupos |-> 1, opcional |-> {}],
    [clave |-> "proceso_seleccion",               grupos |-> 2, opcional |-> {2}],
    [clave |-> "vigencia_final",                  grupos |-> 1, opcional |-> {}],
    [clave |-> "monto_contratado_total",          grupos |-> 1, opcional |-> {}],
    [clave |-> "ruc_contratista",                 grupos |-> 1, opcional |-> {}],
    [clave |-> "ruc_entidad",                     grupos |-> 1, opcional |-> {}],
    [clave |-> "resolucion",                      grupos |-> 1, opcional |-> {}],
    [clave |-> "num_item",                        grupos |-> 1, opcional |-> {}],
    [clave |-> "objeto_contrato",                 grupos |-> 1, opcional |-> {}],
    [clave |-> "plazo_ejecucion",                 grupos |-> 1, opcional |-> {}],
    [clave |-> "representante_legal_contratista", grupos |-> 1, opcional |-> {}] >>

Claves == {patrones[k].clave : k \in DOMAIN patrones}

\* the literal "No encontrado"
NoEncontrado == <<"N","o"," ","e","n","c","o","n","t","r","a","d","o">>

Espacio == <<" ">>

\* grupos_validos = [g for g in match.groups() if g is not None]
grupos_validos(grupos) ==
    LET RECURSIVE filtra(_)
        filtra(k) ==
            IF k > Len(grupos) THEN <<>>
            ELSE IF grupos[k] # Nada
                 THEN <<grupos[k][1]>> \o filtra(k + 1)
                 ELSE filtra(k + 1)
    IN  filtra(1)

\* a variant that only trims: runs of whitespace inside the value are kept
limpiar_solo_recorta(resultado) == strip(resultado)

\* resultado_limpio = ' '.join(resultado.split()).strip()
limpiar(resultado) == strip(join(Espacio, split(resultado)))

\* the value stored for one pattern, given the optional match of re.search
valor_campo(match) ==
    IF match # Nada
    THEN limpiar(join(Espacio, grupos_validos(match[1])))
    ELSE NoEncontrado

\* a variant whose loop stops at the first pattern without a match
RECURSIVE analizar_hasta_fallo(_, _, _)
analizar_hasta_fallo(coinc, k, datos) ==
    IF k > Len(patrones) \/ coinc[patrones[k].clave] = Nada THEN datos
    ELSE analizar_hasta_fallo(coinc, k + 1,
            (patrones[k].clave :> valor_campo(coinc[patrones[k].clave])) @@ datos)

\* the loop over patrones.items(), from pattern k on
RECURSIVE analizar_desde(_, _, _)
analizar_desde(coinc, k, datos) ==
    IF k > Len(patrones) THEN datos
    ELSE analizar_desde(coinc, k + 1,
            (patrones[k].clave :> valor_campo(coinc[patrones[k].clave])) @@ datos)

\* analizar_contrato, given for each pattern what re.search returns on the text
analizar_contrato(coinc) == analizar_desde(coinc, 1, <<>>)

(***************************************************************************)
(* Specification of analizar_contrato as a pure function: the initial      *)
(* states draw what re.search finds, the action applies the function.      *)
(***************************************************************************)
AlfabetoGrupo == {"a", " ", "\n"}

Cadenas(n) == UNION {[1..m -> AlfabetoGrupo] : m \in 0..n}

\* captured texts with the other kinds of whitespace: form feed, no-break
\* space, tab, carriage return, em space
CadenasConOtrosBlancos ==
    { <<"\f", "a">>,
      <<"a", "U+00A0", "\f", "a">>,
      <<"a", "\t", "\r", "a", "U+2003">> }

\* what match.groups() can be for pattern p: one optional text per group,
\* None only for a group that the pattern makes optional
GruposPosibles(p, textos) ==
    {g \in [1..p.grupos -> {Nada} \cup {Algun(t) : t \in textos}] :
        \A k \in 1..p.grupos : g[k] = Nada => k \in p.opcional}

Patron(clave) == patrones[CHOOSE k \in DOMAIN patrones : patrones[k].clave = clave]

\* every subset of the patterns matching, each group capturing the same text
TablasPorPresencia ==
    {[c \in Claves |->
        IF c \in S
        THEN Algun([k \in 1..Patron(c).grupos |-> Algun(<<"a">>)])
        ELSE Nada] : S \in SUBSET Claves}

\* one pattern matching, its groups capturing any text of the bound
TablasPorValor ==
    UNION {{[c \in Claves |-> IF c = foco THEN Algun(g) ELSE Nada] :
                g \in GruposPosibles(Patron(foco),
                                        Cadenas(MaxLen) \cup CadenasConOtrosBlancos)} : foco \in Claves}

InactivoLote ==
    /\ request = [tiene_clave |-> FALSE, files |-> <<>>]
    /\ pc = "inactivo"
    /\ i = 0
    /\ j = 0
    /\ resultados_ok = <<>>
    /\ errores_proceso = <<>>
    /\ pos_ok = <<>>
    /\ pos_err = <<>>
    /\ respuesta = Nada
    /\ session = Nada
    /\ descarga = Nada
    /\ leidas = 0

InactivoOcr ==
    /\ stream_pdf = [abre |-> FALSE, paginas |-> <<>>]
    /\ pc_ocr = "inactivo"
    /\ num_pagina = 0
    /\ texto_completo = <<>>
    /\ llamadas = <<>>
    /\ retorno = Nada

InactivoAnalisis ==
    /\ coincidencias = [c \in Claves |-> Nada]
    /\ datos_extraidos = Nada

InitAnalizar ==
    /\ coincidencias \in TablasPorPresencia \cup TablasPorValor
    /\ datos_extraidos = Nada
    /\ InactivoLote
    /\ InactivoOcr

Analizar ==
    /\ datos_extraidos = Nada
    /\ datos_extraidos' = Algun(analizar_contrato(coincidencias))
    /\ UNCHANGED <<coincidencias, vars_lote, vars_ocr>>

NextAnalizar == Analizar

SpecAnalizar == InitAnalizar /\ [][NextAnalizar]_vars

(***************************************************************************)
(* extraer_texto_con_ocr                                                   *)
(*                                                                         *)
(* A document is [abre, paginas]: whether fitz.open succeeds, and for each *)
(* page [directo, ocr]: the text pagina.get_text() returns, and what the   *)
(* OCR attempt would do: ocr.falla is "ninguna" (image_to_string returns   *)
(* ocr.texto), "render" (get_pixmap, tobytes or Image.open raises) or      *)
(* "ocr" (image_to_string raises).                                         *)
(***************************************************************************)
\* if len(texto_directo) < 100
Umbral == 100

\* pagina.get_pixmap(dpi=300)
Dpi == 300

SaltoDeLinea == <<"\n">>

\* pix = pagina.get_pixmap(dpi=300)
LlamadaRender == [fn |-> "get_pixmap", dpi |-> Dpi, lang |-> ""]

\* pytesseract.image_to_string(img, lang='spa'), img being the rendered page
LlamadaOcr == [fn |-> "image_to_string", dpi |-> Dpi, lang |-> "spa"]

ErrorCritico == "Error Critico al procesar el PDF"

\* a variant whose test is len(texto_directo) <= 100
procesar_pagina_umbral_incluido(pagina) ==
    LET texto_directo == strip(pagina.directo)
    IN  IF Len(texto_directo) <= Umbral
        THEN [aporte |-> (IF pagina.ocr.falla = "ninguna"
                          THEN pagina.ocr.texto ELSE texto_directo) \o SaltoDeLinea,
              llamadas |-> IF pagina.ocr.falla = "render"
                           THEN <<LlamadaRender>> ELSE <<LlamadaRender, LlamadaOcr>>]
        ELSE [aporte |-> texto_directo \o SaltoDeLinea, llamadas |-> <<>>]

\* a variant whose handler of a failed OCR appends nothing for the page
procesar_pagina_descarta(pagina) ==
    LET texto_directo == strip(pagina.directo)
    IN  IF Len(texto_directo) < Umbral
        THEN [aporte |-> IF pagina.ocr.falla = "ninguna"
                         THEN pagina.ocr.texto \o SaltoDeLinea ELSE <<>>,
              llamadas |-> IF pagina.ocr.falla = "render"
                           THEN <<LlamadaRender>> ELSE <<LlamadaRender, LlamadaOcr>>]
        ELSE [aporte |-> texto_directo \o SaltoDeLinea, llamadas |-> <<>>]

\* One iteration of the page loop: the text it appends to texto_completo and
\* the library calls it makes.
procesar_pagina(pagina) ==
    LET texto_directo == strip(pagina.directo)
    IN  IF Len(texto_directo) < Umbral
        THEN CASE pagina.ocr.falla = "render" ->
                    [aporte |-> texto_directo \o SaltoDeLinea,
                     llamadas |-> <<LlamadaRender>>]
               [] pagina.ocr.falla = "ocr" ->
                    [aporte |-> texto_directo \o SaltoDeLinea,
                     llamadas |-> <<LlamadaRender, LlamadaOcr>>]
               [] OTHER ->
                    [aporte |-> pagina.ocr.texto \o SaltoDeLinea,
                     llamadas |-> <<LlamadaRender, LlamadaOcr>>]
        ELSE [aporte |-> texto_directo \o SaltoDeLinea, llamadas |-> <<>>]

\* texto_completo after the pages from k on
RECURSIVE texto_desde(_, _, _)
texto_desde(paginas, k, texto) ==
    IF k > Len(paginas) THEN texto
    ELSE texto_desde(paginas, k + 1, texto \o procesar_pagina(paginas[k]).aporte)

\* The function as a whole: the returned tuple (texto, error)
extraer_texto_con_ocr(stream) ==
    IF stream.abre
    THEN [texto |-> Algun(texto_desde(stream.paginas, 1, <<>>)), error |-> Nada]
    ELSE [texto |-> Nada, error |-> Algun(ErrorCritico)]

(***************************************************************************)
(* Specification of extraer_texto_con_ocr, one step per page.              *)
(***************************************************************************)
Relleno == <<" ", "\n">>

\* a text of n characters with whitespace inside, none at the ends
Cuerpo(n) == <<"a", " ">> \o Rep("a", n - 2)

TextosDirectos ==
    { <<>>,
      <<" ", "a", "\n">>,
      Relleno \o Cuerpo(Umbral - 1) \o Relleno,
      Relleno \o Cuerpo(Umbral) \o Relleno,
      <<"\f">> \o Cuerpo(Umbral - 1) \o <<"U+00A0">>,
      Cuerpo(Umbral + 1) }

TextoOcr == <<"o", " ">>

ResultadosOcr ==
    { [falla |-> "ninguna", texto |-> TextoOcr],
      [falla |-> "render",  texto |-> <<>>],
      [falla |-> "ocr",     texto |-> <<>>] }

Paginas == [directo : TextosDirectos, ocr : ResultadosOcr]

Documentos ==
    {[abre |-> FALSE, paginas |-> <<>>]}
    \cup UNION {{[abre |-> TRUE, paginas |-> ps] : ps \in [1..n -> Paginas]} :
                    n \in 1..MaxPaginas}

InitOcr ==
    /\ stream_pdf \in Documentos
    /\ pc_ocr = "abrir"
    /\ num_pagina = 0
    /\ texto_completo = <<>>
    /\ llamadas = <<>>
    /\ retorno = Nada
    /\ InactivoLote
    /\ InactivoAnalisis

\* doc = fitz.open(...) succeeds
abrir ==
    /\ pc_ocr = "abrir"
    /\ stream_pdf.abre
    /\ pc_ocr' = "paginas"
    /\ num_pagina' = 1
    /\ UNCHANGED <<stream_pdf, texto_completo, llamadas, retorno, vars_lote, vars_an>>

\* fitz.open raises: except Exception as e: return (None, error_msg)
abrir_falla ==
    /\ pc_ocr = "abrir"
    /\ ~stream_pdf.abre
    /\ pc_ocr' = "fin"
    /\ retorno' = Algun([texto |-> Nada, error |-> Algun(ErrorCritico)])
    /\ UNCHANGED <<stream_pdf, num_pagina, texto_completo, llamadas, vars_lote, vars_an>>

\* one iteration of for num_pagina, pagina in enumerate(doc)
pagina_siguiente ==
    /\ pc_ocr = "paginas"
    /\ num_pagina <= Len(stream_pdf.paginas)
    /\ LET r == procesar_pagina(stream_pdf.paginas[num_pagina])
       IN  /\ texto_completo' = texto_completo \o r.aporte
           /\ llamadas' = llamadas \o
                [k \in 1..Len(r.llamadas) |->
                    [pagina |-> num_pagina, llamada |-> r.llamadas[k]]]
    /\ num_pagina' = num_pagina + 1
    /\ UNCHANGED <<stream_pdf, pc_ocr, retorno, vars_lote, vars_an>>

\* doc.close(); return (texto_completo, None)
retornar ==
    /\ pc_ocr = "paginas"
    /\ num_pagina > Len(stream_pdf.paginas)
    /\ pc_ocr' = "fin"
    /\ retorno' = Algun([texto |-> Algun(texto_completo), error |-> Nada])
    /\ UNCHANGED <<stream_pdf, num_pagina, texto_completo, llamadas, vars_lote, vars_an>>

NextOcr == abrir \/ abrir_falla \/ pagina_siguiente \/ retornar

SpecOcr == InitOcr /\ [][NextOcr]_vars

(***************************************************************************)
(* process_files                                                           *)
(*                                                                         *)
(* An uploaded file is [filename, lectura, es_zip, zip_abre, entradas,     *)
(* contenido]:                                                             *)
(*   lectura        "ok", or "falla" when reading the bytes of a document  *)
(*                  raises (file.read(), zip_ref.read(item_name))          *)
(*   es_zip         the result of zipfile.is_zipfile on its bytes          *)
(*   zip_abre       whether zipfile.ZipFile(...) succeeds on its bytes     *)
(*   entradas       the members of the archive in namelist() order, each   *)
(*                  [nombre, lectura, contenido]                           *)
(*   contenido      the name of its bytes: DocumentoDe gives them as a     *)
(*                  document for extraer_texto_con_ocr, CoincidenciasDe    *)
(*                  what re.search finds in the text of that document      *)
(***************************************************************************)
SinCoincidencias == [c \in Claves |-> Nada]

\* what the patterns find in TextoDeContrato: only the contract number
SoloNumContrato ==
    [c \in Claves |->
        IF c = "num_contrato" THEN Algun(<<Algun(<<"0", "4", "5">>)>>) ELSE Nada]

\* "CONTRATO 045 aaa...": 100 characters
TextoDeContrato ==
    <<"C", "O", "N", "T", "R", "A", "T", "O", " ", "0", "4", "5", " ">>
    \o Rep("a", Umbral - 13)

\* one page of machine-readable text
DocTexto ==
    [abre |-> TRUE,
     paginas |-> << [directo |-> Relleno \o TextoDeContrato \o Relleno,
                     ocr |-> [falla |-> "ocr", texto |-> <<>>]] >>]

\* a scanned page on which tesseract raises, a page of 99 characters that
\* cannot be rendered, then a page of text
DocOcrFalla ==
    [abre |-> TRUE,
     paginas |-> << [directo |-> <<" ", "a", "\n">>,
                     ocr |-> [falla |-> "ocr", texto |-> <<>>]],
                    [directo |-> Relleno \o Cuerpo(Umbral - 1) \o Relleno,
                     ocr |-> [falla |-> "render", texto |-> <<>>]],
                    [directo |-> Cuerpo(Umbral),
                     ocr |-> [falla |-> "ninguna", texto |-> TextoOcr]] >>]

\* an empty page that cannot be rendered, then a scanned page that is read
DocRenderFalla ==
    [abre |-> TRUE,
     paginas |-> << [directo |-> <<>>,
                     ocr |-> [falla |-> "render", texto |-> <<>>]],
                    [directo |-> <<"\f", "a", "U+00A0">>,
                     ocr |-> [falla |-> "ninguna", texto |-> TextoOcr]] >>]

\* bytes that fitz cannot open
DocRoto == [abre |-> FALSE, paginas |-> <<>>]

\* the bytes of the model, by name
DocumentoDe(contenido) ==
    CASE contenido = "texto" -> DocTexto
      [] contenido = "ocr_falla" -> DocOcrFalla
      [] contenido = "render_falla" -> DocRenderFalla
      [] OTHER -> DocRoto

Contenidos == {"texto", "ocr_falla", "render_falla", "roto"}

\* texto, error = extraer_texto_con_ocr(...) on each of the bytes of the model
ExtraccionDe == [c \in Contenidos |-> extraer_texto_con_ocr(DocumentoDe(c))]

\* what re.search finds for each pattern in the text of the document: the
\* contract number in TextoDeContrato, nothing in the other texts of the model
CoincidenciasDe(contenido) ==
    IF contenido = "texto" THEN SoloNumContrato ELSE SinCoincidencias

SufijoZip == <<".", "z", "i", "p">>

SufijoPdf == <<".", "p", "d", "f">>

PrefijoMacosx == <<"_", "_", "M", "A", "C", "O", "S", "X">>

\* The characters that str.lower() turns into each character of '.pdf'.  No
\* other character gives any of the four, alone or within a longer result, so
\* the lowered name ends in '.pdf' exactly when the last four characters of
\* the name are taken from these sets, in order.
MinusculaDesde ==
    [c \in {".", "p", "d", "f"} |->
        CASE c = "." -> {"."}
          [] c = "p" -> {"p", "P"}
          [] c = "d" -> {"d", "D"}
          [] c = "f" -> {"f", "F"}]

\* nombre.lower().endswith('.pdf')
lower_endswith_pdf(nombre) ==
    /\ Len(nombre) >= Len(SufijoPdf)
    /\ \A k \in 1..Len(SufijoPdf) :
            nombre[Len(nombre) - Len(SufijoPdf) + k] \in MinusculaDesde[SufijoPdf[k]]

\* if nombre_archivo.endswith('.zip')
es_contenedor(nombre_archivo) == endswith(nombre_archivo, SufijoZip)

\* a variant that compares the suffix of a single document without case
es_pdf_suelto_sin_caso(nombre_archivo) ==
    /\ ~endswith(nombre_archivo, SufijoZip)
    /\ lower_endswith_pdf(nombre_archivo)

\* elif nombre_archivo.endswith('.pdf')
es_pdf_suelto(nombre_archivo) ==
    /\ ~es_contenedor(nombre_archivo)
    /\ endswith(nombre_archivo, SufijoPdf)

\* if item_name.lower().endswith('.pdf') and not item_name.startswith('__MACOSX')
entrada_aceptada(item_name) ==
    /\ lower_endswith_pdf(item_name)
    /\ ~startswith(item_name, PrefijoMacosx)

\* The error strings, by the f-string that builds them.
\* f"'{nombre_archivo}' no es un archivo ZIP valido."
error_zip_no_valido(nombre_archivo) ==
    [plantilla |-> "'{}' no es un archivo ZIP valido.",
     item |-> <<>>, contenedor |-> nombre_archivo, causa |-> ""]

\* f"Error al procesar el archivo ZIP '{nombre_archivo}': {e_zip}"
error_zip(nombre_archivo, e_zip) ==
    [plantilla |-> "Error al procesar el archivo ZIP '{}': {}",
     item |-> <<>>, contenedor |-> nombre_archivo, causa |-> e_zip]

\* f"Error en '{item_name}' (dentro de {nombre_archivo}): {error}"
error_en_entrada(item_name, nombre_archivo, error) ==
    [plantilla |-> "Error en '{}' (dentro de {}): {}",
     item |-> item_name, contenedor |-> nombre_archivo, causa |-> error]

\* f"Error procesando '{item_name}' (dentro de {nombre_archivo}): {e_pdf}"
error_procesando_entrada(item_name, nombre_archivo, e_pdf) ==
    [plantilla |-> "Error procesando '{}' (dentro de {}): {}",
     item |-> item_name, contenedor |-> nombre_archivo, causa |-> e_pdf]

\* f"'{nombre_archivo}': {error}"
error_en_pdf(nombre_archivo, error) ==
    [plantilla |-> "'{}': {}",
     item |-> nombre_archivo, contenedor |-> <<>>, causa |-> error]

\* f"Error inesperado procesando '{nombre_archivo}': {e}"
error_inesperado(nombre_archivo, e) ==
    [plantilla |-> "Error inesperado procesando '{}': {}",
     item |-> nombre_archivo, contenedor |-> <<>>, causa |-> e]

ErrorNingunArchivo ==
    [plantilla |-> "No se pudo extraer informacion de ningun archivo.",
     item |-> <<>>, contenedor |-> <<>>, causa |-> ""]

ErrorSinArchivos ==
    [plantilla |-> "No se enviaron archivos.",
     item |-> <<>>, contenedor |-> <<>>, causa |-> ""]

BadZipFile == "BadZipFile"

ExcepcionLectura == "excepcion de lectura"

\* datos = analizar_contrato(texto); datos['Archivo'] = nombre
registro(coinc, nombre) == ("Archivo" :> nombre) @@ analizar_contrato(coinc)

\* df = pd.DataFrame(resultados_ok); columnas = ['Archivo'] + the other columns
tabla(resultados) ==
    [columnas |-> <<"Archivo">> \o [k \in DOMAIN patrones |-> patrones[k].clave],
     filas |-> resultados]

(***************************************************************************)
(* The inputs of the model.  The batch is drawn as the loops reach it: a   *)
(* step that takes the next file or the next archive entry draws it from   *)
(* the sets below and appends it to request.files, so that request.files   *)
(* is at any time the part of the upload the handler has read.             *)
(***************************************************************************)
Entrada(nombre, lectura, contenido) ==
    [nombre |-> nombre, lectura |-> lectura, contenido |-> contenido]

Entradas ==
    { Entrada(<<"s", ".", "p", "d", "f">>, "ok", "texto"),
      Entrada(<<"S", ".", "P", "D", "F">>, "ok", "render_falla"),
      Entrada(<<"r", ".", "p", "d", "f">>, "ok", "roto"),
      Entrada(<<"q", ".", "p", "d", "f">>, "falla", "roto"),
      Entrada(<<"n", ".", "t", "x", "t">>, "ok", "roto"),
      Entrada(PrefijoMacosx \o <<"/", "s", ".", "p", "d", "f">>, "ok", "texto") }

Archivo(filename, lectura, es_zip, zip_abre, contenido) ==
    [filename |-> filename, lectura |-> lectura, es_zip |-> es_zip,
     zip_abre |-> zip_abre, entradas |-> <<>>, contenido |-> contenido]

NombreZip == <<"c", ".", "z", "i", "p">>

\* the uploads: documents, other files, archives (the entries of an archive
\* that opens are drawn as they are listed)
Archivos ==
    { Archivo(<<"a", ".", "p", "d", "f">>, "ok", FALSE, FALSE, "ocr_falla"),
      Archivo(<<"e", ".", "p", "d", "f">>, "ok", FALSE, FALSE, "roto"),
      Archivo(<<"f", ".", "p", "d", "f">>, "falla", FALSE, FALSE, "roto"),
      Archivo(<<"b", ".", "P", "D", "F">>, "ok", FALSE, FALSE, "texto"),
      Archivo(<<"n", ".", "t", "x", "t">>, "ok", FALSE, FALSE, "roto"),
      Archivo(<<"d", ".", "Z", "I", "P">>, "ok", TRUE, TRUE, "roto"),
      Archivo(NombreZip, "ok", FALSE, FALSE, "roto"),
      Archivo(NombreZip, "ok", TRUE, FALSE, "roto"),
      Archivo(NombreZip, "ok", TRUE, TRUE, "roto") }

RECURSIVE Unidades(_)
Unidades(files) ==
    IF files = <<>> THEN 0
    ELSE 1 + Len(Head(files).entradas) + Unidades(Tail(files))

HayMas == leidas + Unidades(request.files) < MaxUnidades

\* the application has started and the client has a new, empty session; no
\* request has been made
Init ==
    /\ request = [tiene_clave |-> FALSE, files |-> <<>>]
    /\ pc = "inicio"
    /\ i = 0
    /\ j = 0
    /\ resultados_ok = <<>>
    /\ errores_proceso = <<>>
    /\ pos_ok = <<>>
    /\ pos_err = <<>>
    /\ respuesta = Nada
    /\ session = Nada
    /\ descarga = Nada
    /\ leidas = 0
    /\ InactivoOcr
    /\ InactivoAnalisis

\* POST /process arrives, when no other request of the client is being
\* served: the handler starts with the session as the client holds it and
\* with new locals
llega_peticion(tiene_clave) ==
    /\ pc \in {"inicio", "fin"}
    /\ request' = [tiene_clave |-> tiene_clave, files |-> <<>>]
    /\ leidas' = leidas + Unidades(request.files)
    /\ i' = 0
    /\ j' = 0
    /\ resultados_ok' = <<>>
    /\ errores_proceso' = <<>>
    /\ pos_ok' = <<>>
    /\ pos_err' = <<>>

\* if 'upload_files' not in request.files: return ..., 400
sin_archivos ==
    /\ llega_peticion(FALSE)
    /\ respuesta' = Algun([success |-> FALSE, status |-> 400,
                           errors |-> <<ErrorSinArchivos>>, table_html |-> Nada])
    /\ pc' = "fin"
    /\ UNCHANGED <<session, descarga, vars_ocr, vars_an>>

\* files = request.files.getlist(...); resultados_ok = []; errores_proceso = []
iniciar ==
    /\ llega_peticion(TRUE)
    /\ respuesta' = Nada
    /\ pc' = "bucle"
    /\ UNCHANGED <<session, descarga, vars_ocr, vars_an>>

\* for file in files: the loop takes the next file
toma_archivo(file) ==
    /\ pc = "bucle"
    /\ HayMas
    /\ file \in Archivos
    /\ request' = [request EXCEPT !.files = Append(@, file)]
    /\ i' = i + 1

\* a failure of the file just taken: one error, then the next file
falla_archivo(error) ==
    /\ errores_proceso' = Append(errores_proceso, error)
    /\ pos_err' = Append(pos_err, <<i', 0>>)
    /\ UNCHANGED <<pc, j, resultados_ok, pos_ok, respuesta, session,
                   descarga, leidas, vars_ocr, vars_an>>

\* not zipfile.is_zipfile(zip_stream): append the error, continue
zip_no_valido ==
    \E file \in Archivos :
        /\ toma_archivo(file)
        /\ es_contenedor(file.filename)
        /\ ~file.es_zip
        /\ falla_archivo(error_zip_no_valido(file.filename))

\* zipfile.ZipFile(zip_stream) raises: except Exception as e_zip
zip_excepcion ==
    \E file \in Archivos :
        /\ toma_archivo(file)
        /\ es_contenedor(file.filename)
        /\ file.es_zip
        /\ ~file.zip_abre
        /\ falla_archivo(error_zip(file.filename, BadZipFile))

\* with zipfile.ZipFile(zip_stream) as zip_ref: for item_name in zip_ref.namelist()
zip_abrir ==
    \E file \in Archivos :
        /\ toma_archivo(file)
        /\ es_contenedor(file.filename)
        /\ file.es_zip
        /\ file.zip_abre
        /\ pc' = "entradas"
        /\ j' = 0
        /\ UNCHANGED <<resultados_ok, errores_proceso, pos_ok, pos_err,
                       respuesta, session, descarga, leidas, vars_ocr, vars_an>>

\* for item_name in zip_ref.namelist(): the loop takes the next entry
toma_entrada(entrada) ==
    /\ pc = "entradas"
    /\ HayMas
    /\ entrada \in Entradas
    /\ request' = [request EXCEPT !.files[i].entradas = Append(@, entrada)]
    /\ j' = j + 1

\* a variant that reports the entries the filter rejects
entrada_omitida_con_error ==
    \E entrada \in Entradas :
        /\ toma_entrada(entrada)
        /\ ~entrada_aceptada(entrada.nombre)
        /\ errores_proceso' = Append(errores_proceso,
                error_en_entrada(entrada.nombre, request.files[i].filename, "omitido"))
        /\ pos_err' = Append(pos_err, <<i, j'>>)
        /\ UNCHANGED <<pc, i, resultados_ok, pos_ok, respuesta, session, descarga, leidas,
                       vars_ocr, vars_an>>

\* the filter of line 140 is false: next entry
entrada_omitida ==
    \E entrada \in Entradas :
        /\ toma_entrada(entrada)
        /\ ~entrada_aceptada(entrada.nombre)
        /\ UNCHANGED <<pc, i, resultados_ok, errores_proceso, pos_ok, pos_err,
                       respuesta, session, descarga, leidas, vars_ocr, vars_an>>

\* a failure of the entry just taken: one error, then the next entry
falla_entrada(error) ==
    /\ errores_proceso' = Append(errores_proceso, error)
    /\ pos_err' = Append(pos_err, <<i, j'>>)
    /\ UNCHANGED <<pc, i, resultados_ok, pos_ok, respuesta, session,
                   descarga, leidas, vars_ocr, vars_an>>

\* a variant without the inner try: the exception of an entry reaches the
\* handler of the archive, which abandons the remaining entries
entrada_excepcion_sin_try ==
    \E entrada \in Entradas :
        /\ toma_entrada(entrada)
        /\ entrada_aceptada(entrada.nombre)
        /\ entrada.lectura = "falla"
        /\ errores_proceso' = Append(errores_proceso,
                error_zip(request.files[i].filename, ExcepcionLectura))
        /\ pos_err' = Append(pos_err, <<i, j'>>)
        /\ pc' = "bucle"
        /\ UNCHANGED <<i, resultados_ok, pos_ok, respuesta, session, descarga, leidas,
                       vars_ocr, vars_an>>

\* zip_ref.read(item_name) raises: except Exception as e_pdf
entrada_excepcion ==
    \E entrada \in Entradas :
        /\ toma_entrada(entrada)
        /\ entrada_aceptada(entrada.nombre)
        /\ entrada.lectura = "falla"
        /\ falla_entrada(error_procesando_entrada(entrada.nombre,
                            request.files[i].filename, ExcepcionLectura))

\* texto, error = extraer_texto_con_ocr(...); if error: append, continue
entrada_error ==
    \E entrada \in Entradas :
        /\ toma_entrada(entrada)
        /\ entrada_aceptada(entrada.nombre)
        /\ entrada.lectura = "ok"
        /\ ExtraccionDe[entrada.contenido].error # Nada
        /\ falla_entrada(error_en_entrada(entrada.nombre, request.files[i].filename,
                            ExtraccionDe[entrada.contenido].error[1]))

\* a variant that puts the record of an entry at the head of the list
entrada_ok_al_frente ==
    \E entrada \in Entradas :
        /\ toma_entrada(entrada)
        /\ entrada_aceptada(entrada.nombre)
        /\ entrada.lectura = "ok"
        /\ ExtraccionDe[entrada.contenido].error = Nada
        /\ resultados_ok' = <<registro(CoincidenciasDe(entrada.contenido), entrada.nombre)>>
                                \o resultados_ok
        /\ pos_ok' = <<(<<i, j'>>)>> \o pos_ok
        /\ UNCHANGED <<pc, i, errores_proceso, pos_err, respuesta, session,
                       descarga, leidas, vars_ocr, vars_an>>

\* datos = analizar_contrato(texto); datos['Archivo'] = item_name; append
entrada_ok ==
    \E entrada \in Entradas :
        /\ toma_entrada(entrada)
        /\ entrada_aceptada(entrada.nombre)
        /\ entrada.lectura = "ok"
        /\ ExtraccionDe[entrada.contenido].error = Nada
        /\ resultados_ok' = Append(resultados_ok,
                                registro(CoincidenciasDe(entrada.contenido), entrada.nombre))
        /\ pos_ok' = Append(pos_ok, <<i, j'>>)
        /\ UNCHANGED <<pc, i, errores_proceso, pos_err, respuesta, session,
                       descarga, leidas, vars_ocr, vars_an>>

\* namelist() is exhausted: the archive is closed, next file
zip_cerrar ==
    /\ pc = "entradas"
    /\ pc' = "bucle"
    /\ j' = 0
    /\ UNCHANGED <<request, i, resultados_ok, errores_proceso, pos_ok, pos_err,
                   respuesta, session, descarga, leidas, vars_ocr, vars_an>>

\* pdf_stream = file.read() raises: except Exception as e
pdf_excepcion ==
    \E file \in Archivos :
        /\ toma_archivo(file)
        /\ es_pdf_suelto(file.filename)
        /\ file.lectura = "falla"
        /\ falla_archivo(error_inesperado(file.filename, ExcepcionLectura))

\* a variant without the continue: after the error is appended the text None
\* goes on to analizar_contrato, which raises into the handler of line 174
pdf_error_sin_continue ==
    \E file \in Archivos :
        /\ toma_archivo(file)
        /\ es_pdf_suelto(file.filename)
        /\ file.lectura = "ok"
        /\ ExtraccionDe[file.contenido].error # Nada
        /\ errores_proceso' = errores_proceso \o
                << error_en_pdf(file.filename,
                        ExtraccionDe[file.contenido].error[1]),
                   error_inesperado(file.filename, "TypeError") >>
        /\ pos_err' = pos_err \o << <<i', 0>>, <<i', 0>> >>
        /\ UNCHANGED <<pc, j, resultados_ok, pos_ok, respuesta, session,
                       descarga, leidas, vars_ocr, vars_an>>

\* texto, error = extraer_texto_con_ocr(pdf_stream); if error: append, continue
pdf_error ==
    \E file \in Archivos :
        /\ toma_archivo(file)
        /\ es_pdf_suelto(file.filename)
        /\ file.lectura = "ok"
        /\ ExtraccionDe[file.contenido].error # Nada
        /\ falla_archivo(error_en_pdf(file.filename,
                            ExtraccionDe[file.contenido].error[1]))

\* datos = analizar_contrato(texto); datos['Archivo'] = nombre_archivo; append
pdf_ok ==
    \E file \in Archivos :
        /\ toma_archivo(file)
        /\ es_pdf_suelto(file.filename)
        /\ file.lectura = "ok"
        /\ ExtraccionDe[file.contenido].error = Nada
        /\ resultados_ok' = Append(resultados_ok,
                                registro(CoincidenciasDe(file.contenido), file.filename))
        /\ pos_ok' = Append(pos_ok, <<i', 0>>)
        /\ UNCHANGED <<pc, j, errores_proceso, pos_err, respuesta, session,
                       descarga, leidas, vars_ocr, vars_an>>

\* neither branch of the if / elif: nothing happens for this file
archivo_omitido ==
    \E file \in Archivos :
        /\ toma_archivo(file)
        /\ ~es_contenedor(file.filename)
        /\ ~es_pdf_suelto(file.filename)
        /\ UNCHANGED <<pc, j, resultados_ok, errores_proceso, pos_ok, pos_err,
                       respuesta, session, descarga, leidas, vars_ocr, vars_an>>

\* a variant whose failure response drops the collected errors
responder_fallo_sin_errores ==
    /\ pc = "bucle"
    /\ resultados_ok = <<>>
    /\ respuesta' = Algun([success |-> FALSE, status |-> 200,
                           errors |-> <<ErrorNingunArchivo>>, table_html |-> Nada])
    /\ pc' = "fin"
    /\ UNCHANGED <<request, i, j, resultados_ok, errores_proceso, pos_ok, pos_err,
                   session, descarga, leidas, vars_ocr, vars_an>>

\* if not resultados_ok: return jsonify({'success': False, 'errors': [...] + errores})
responder_fallo ==
    /\ pc = "bucle"
    /\ resultados_ok = <<>>
    /\ respuesta' = Algun([success |-> FALSE, status |-> 200,
                           errors |-> <<ErrorNingunArchivo>> \o errores_proceso,
                           table_html |-> Nada])
    /\ pc' = "fin"
    /\ UNCHANGED <<request, i, j, resultados_ok, errores_proceso, pos_ok, pos_err,
                   session, descarga, leidas, vars_ocr, vars_an>>

\* the DataFrame is built, stored in the session as a spreadsheet and returned
responder_exito ==
    /\ pc = "bucle"
    /\ resultados_ok # <<>>
    /\ session' = Algun(tabla(resultados_ok))
    /\ respuesta' = Algun([success |-> TRUE, status |-> 200,
                           errors |-> errores_proceso,
                           table_html |-> Algun(tabla(resultados_ok))])
    /\ pc' = "fin"
    /\ UNCHANGED <<request, i, j, resultados_ok, errores_proceso, pos_ok, pos_err,
                   descarga, leidas, vars_ocr, vars_an>>

\* GET /download, at any time: excel_data = session.pop('excel_data', None);
\* 404 when there is none, the stored spreadsheet otherwise
download_excel ==
    /\ session' = Nada
    /\ descarga' = IF session = Nada
                   THEN Algun([status |-> 404, excel |-> Nada])
                   ELSE Algun([status |-> 200, excel |-> session])
    /\ UNCHANGED <<request, pc, i, j, resultados_ok, errores_proceso, pos_ok, pos_err,
                   respuesta, leidas, vars_ocr, vars_an>>

Next ==
    \/ sin_archivos
    \/ iniciar
    \/ zip_no_valido
    \/ zip_excepcion
    \/ zip_abrir
    \/ entrada_omitida
    \/ entrada_excepcion
    \/ entrada_error
    \/ entrada_ok
    \/ zip_cerrar
    \/ pdf_excepcion
    \/ pdf_error
    \/ pdf_ok
    \/ archivo_omitido
    \/ responder_fallo
    \/ responder_exito
    \/ download_excel

Spec == Init /\ [][Next]_vars

(***************************************************************************)
(* Properties.  The definitions of this part state what the specification  *)
(* of the program says; they do not use the operators that model the code. *)
(***************************************************************************)
\* whitespace: tab to carriage return, the four separators, the space, next
\* line, and the spaces beyond ASCII
Blanco(c) ==
    \/ c \in {"\t", "\n", "U+000B", "\f", "\r"}
    \/ c \in {"U+001C", "U+001D", "U+001E", "U+001F"}
    \/ c \in {" ", "U+0085", "U+00A0", "U+1680", "U+2028", "U+2029", "U+202F",
              "U+205F", "U+3000"}
    \/ c \in {"U+2000", "U+2001", "U+2002", "U+2003", "U+2004", "U+2005", "U+2006",
              "U+2007", "U+2008", "U+2009", "U+200A"}

\* a text without the whitespace at its two ends: what lies between its
\* blank prefix and its blank suffix
Recortado(s) ==
    LET prefijos == {n \in 0..Len(s) : \A k \in 1..n : Blanco(s[k])}
        sufijos == {n \in 0..Len(s) : \A k \in (Len(s) - n + 1)..Len(s) : Blanco(s[k])}
        a == Cardinality(prefijos)
        b == Cardinality(sufijos)
    IN  IF a > Len(s) THEN <<>> ELSE SubSeq(s, a, Len(s) - b + 1)

Enesimo(S, m) == CHOOSE x \in S : Cardinality({y \in S : y < x}) = m - 1

\* the words of a text: its maximal runs of characters that are not whitespace
PalabrasDe(s) ==
    LET inicios == {k \in 1..Len(s) : ~Blanco(s[k]) /\ (k = 1 \/ Blanco(s[k - 1]))}
        fines == {k \in 1..Len(s) : ~Blanco(s[k]) /\ (k = Len(s) \/ Blanco(s[k + 1]))}
    IN  [m \in 1..Cardinality(inicios) |->
            SubSeq(s, Enesimo(inicios, m), Enesimo(fines, m))]

\* no whitespace but single spaces between words
BienEspaciado(v) ==
    \A k \in 1..Len(v) :
        Blanco(v[k]) => /\ v[k] = " "
                        /\ k # 1
                        /\ k # Len(v)
                        /\ ~Blanco(v[k + 1])

\* the groups that took part in a match, joined in order by one space
RECURSIVE UnidosPorEspacio(_)
UnidosPorEspacio(textos) ==
    IF textos = <<>> THEN <<>>
    ELSE IF Len(textos) = 1 THEN textos[1]
         ELSE textos[1] \o <<" ">> \o UnidosPorEspacio(Tail(textos))

Participantes(grupos) ==
    LET presentes == SelectSeq(grupos, LAMBDA g : g # <<>>)
    IN  [k \in 1..Len(presentes) |-> presentes[k][1]]

ClavesFijas ==
    {"num_contrato", "fecha_suscripcion_contrato", "proceso_seleccion",
     "vigencia_final", "monto_contratado_total", "ruc_contratista", "ruc_entidad",
     "resolucion", "num_item", "objeto_contrato", "plazo_ejecucion",
     "representante_legal_contratista"}

\* C8: the mapping analizar_contrato returns has exactly the 12 fixed keys
\* whatever subset of the patterns matches; a pattern without a match has
\* the value "No encontrado" (never the empty text), and a pattern with a
\* match has its own value whether or not the other patterns match.
C8_TodasLasClaves ==
    datos_extraidos # <<>> =>
        LET d == datos_extraidos[1]
        IN  /\ DOMAIN d = ClavesFijas
            /\ Cardinality(DOMAIN d) = 12
            /\ \A c \in ClavesFijas :
                    coincidencias[c] = <<>> =>
                        /\ d[c] = <<"N","o"," ","e","n","c","o","n","t","r","a","d","o">>
                        /\ d[c] # <<>>
            /\ \A c \in ClavesFijas :
                    coincidencias[c] # <<>> =>
                        /\ d[c] # <<"N","o"," ","e","n","c","o","n","t","r","a","d","o">>
                        /\ PalabrasDe(d[c]) =
                              PalabrasDe(UnidosPorEspacio(Participantes(coincidencias[c][1])))

\* some patterns match, some before and some after them do not
C8_Testigo ==
    /\ datos_extraidos # <<>>
    /\ coincidencias["num_contrato"] = <<>>
    /\ coincidencias["proceso_seleccion"] # <<>>
    /\ coincidencias["ruc_entidad"] = <<>>
    /\ coincidencias["plazo_ejecucion"] # <<>>
    /\ datos_extraidos[1]["ruc_entidad"] = NoEncontrado
    /\ datos_extraidos[1]["plazo_ejecucion"] = <<"a">>

\* C9: the value of a pattern that matches is the text of the groups that
\* took part in the match, joined in group order by one space and
\* normalised: it has the same words in the same order, separated by exactly
\* one space, with no newline, no two consecutive spaces and no whitespace at
\* either end.
C9_ValorNormalizado ==
    datos_extraidos # <<>> =>
        \A c \in DOMAIN coincidencias :
            coincidencias[c] # <<>> =>
                LET v == datos_extraidos[1][c]
                    unidos == UnidosPorEspacio(Participantes(coincidencias[c][1]))
                IN  /\ PalabrasDe(v) = PalabrasDe(unidos)
                    /\ BienEspaciado(v)
                    /\ \A k \in 1..Len(v) : v[k] # "\n"

\* two groups took part, one holds a newline and a run of whitespace
C9_Testigo ==
    /\ datos_extraidos # <<>>
    /\ coincidencias["proceso_seleccion"] =
            << << << <<"a", "\n", " ">> >>, << <<" ", "a", "a">> >> >> >>
    /\ datos_extraidos[1]["proceso_seleccion"] = <<"a", " ", "a", "a">>

\* C3: in a step of the page loop the page is rendered (get_pixmap at 300
\* dpi) exactly when its trimmed direct text is shorter than 100 characters;
\* image_to_string is called only after such a rendering, and whenever the
\* rendering does not raise; a page whose trimmed text has 100 characters or
\* more makes no OCR call and appends its trimmed text and one newline.
C3_OcrSoloBajoUmbral ==
    [][ (pc_ocr = "paginas" /\ num_pagina' = num_pagina + 1) =>
            LET pagina == stream_pdf.paginas[num_pagina]
                recortado == Recortado(pagina.directo)
                nuevas == SubSeq(llamadas', Len(llamadas) + 1, Len(llamadas'))
                renders == {k \in 1..Len(nuevas) : nuevas[k].llamada.fn = "get_pixmap"}
                ocrs == {k \in 1..Len(nuevas) : nuevas[k].llamada.fn = "image_to_string"}
            IN  /\ SubSeq(llamadas', 1, Len(llamadas)) = llamadas
                /\ \A k \in 1..Len(nuevas) : nuevas[k].pagina = num_pagina
                /\ (renders # {}) <=> (Len(recortado) < 100)
                /\ \A k \in renders : nuevas[k].llamada.dpi = 300
                /\ Cardinality(renders) <= 1 /\ Cardinality(ocrs) <= 1
                /\ ocrs # {} => renders # {} /\ \A a \in renders, b \in ocrs : a < b
                /\ (Len(recortado) < 100 /\ pagina.ocr.falla # "render") => ocrs # {}
                /\ Len(recortado) >= 100 =>
                        /\ llamadas' = llamadas
                        /\ texto_completo' = texto_completo \o recortado \o <<"\n">>
      ]_vars

\* a page of 99 characters between whitespace was sent to OCR, then a page of
\* exactly 100 was not
C3_Testigo ==
    /\ pc_ocr = "fin"
    /\ Len(stream_pdf.paginas) = 2
    /\ Len(Recortado(stream_pdf.paginas[1].directo)) = 99
    /\ Len(stream_pdf.paginas[1].directo) > 100
    /\ Len(Recortado(stream_pdf.paginas[2].directo)) = 100
    /\ llamadas # <<>>
    /\ \A k \in 1..Len(llamadas) : llamadas[k].pagina = 1

(***************************************************************************)
(* Properties of process_files.  A unit of the batch is named by <<k, 0>>, *)
(* the k-th upload, or <<k, m>>, the m-th entry of the k-th upload.        *)
(***************************************************************************)
TerminaEn(nombre, sufijo) ==
    \E n \in 0..Len(nombre) : SubSeq(nombre, n + 1, Len(nombre)) = sufijo

ZipPorNombre(f) == TerminaEn(f.filename, <<".", "z", "i", "p">>)

PdfPorNombre(f) == TerminaEn(f.filename, <<".", "p", "d", "f">>)

\* the archive is structurally valid and opens
ArchivoAbierto(f) == ZipPorNombre(f) /\ f.es_zip /\ f.zip_abre

\* the name of an entry ends in .pdf in any case and does not start by __MACOSX
EntradaPdf(e) ==
    LET n == Len(e.nombre)
    IN  /\ n >= 4
        /\ e.nombre[n - 3] = "."
        /\ e.nombre[n - 2] \in {"p", "P"}
        /\ e.nombre[n - 1] \in {"d", "D"}
        /\ e.nombre[n] \in {"f", "F"}
        /\ ~(n >= 8 /\ SubSeq(e.nombre, 1, 8) = <<"_", "_", "M", "A", "C", "O", "S", "X">>)

\* the bytes of a document cannot be read or cannot be opened
DocumentoFalla(u) == u.lectura = "falla" \/ ~DocumentoDe(u.contenido).abre

Veces(posiciones, pos) == Cardinality({n \in DOMAIN posiciones : posiciones[n] = pos})

DelArchivo(posiciones, k) == Cardinality({n \in DOMAIN posiciones : posiciones[n][1] = k})

AceptadasDe(f) == {m \in DOMAIN f.entradas : EntradaPdf(f.entradas[m])}

\* C1: every document of the batch (an upload whose name ends in .pdf, an
\* accepted entry of an archive that opens) is in exactly one of the two
\* lists, once; an archive that is not valid or does not open is in the
\* errors once; an upload is in neither list only if its name ends in neither
\* .pdf nor .zip, or it is an archive that holds no accepted document.
C1_CadaDocumentoUnaVez ==
    /\ Len(pos_ok) = Len(resultados_ok)
    /\ Len(pos_err) = Len(errores_proceso)
    /\ \A n \in DOMAIN pos_ok : pos_ok[n][1] \in DOMAIN request.files
    /\ \A n \in DOMAIN pos_err : pos_err[n][1] \in DOMAIN request.files
    /\ \A k \in DOMAIN request.files :
        LET f == request.files[k]
        IN  /\ (PdfPorNombre(f) /\ ~ZipPorNombre(f)) =>
                    /\ Veces(pos_ok, <<k, 0>>) + Veces(pos_err, <<k, 0>>) = 1
                    /\ DelArchivo(pos_ok, k) + DelArchivo(pos_err, k) = 1
            /\ (ZipPorNombre(f) /\ ~ArchivoAbierto(f)) =>
                    /\ DelArchivo(pos_ok, k) = 0
                    /\ Veces(pos_err, <<k, 0>>) = 1
                    /\ DelArchivo(pos_err, k) = 1
            /\ ArchivoAbierto(f) =>
                    /\ Veces(pos_ok, <<k, 0>>) + Veces(pos_err, <<k, 0>>) = 0
                    /\ \A m \in DOMAIN f.entradas :
                            Veces(pos_ok, <<k, m>>) + Veces(pos_err, <<k, m>>) =
                                IF m \in AceptadasDe(f) THEN 1 ELSE 0
                    /\ DelArchivo(pos_ok, k) + DelArchivo(pos_err, k) =
                            Cardinality(AceptadasDe(f))
            /\ (DelArchivo(pos_ok, k) + DelArchivo(pos_err, k) = 0) =>
                    \/ ~PdfPorNombre(f) /\ ~ZipPorNombre(f)
                    \/ ArchivoAbierto(f) /\ AceptadasDe(f) = {}
            /\ (~PdfPorNombre(f) /\ ~ZipPorNombre(f)) =>
                    DelArchivo(pos_ok, k) + DelArchivo(pos_err, k) = 0

\* a batch that is over, with a document that failed, one that succeeded, an
\* upload of another type and an archive without documents
C1_Testigo ==
    /\ pc = "fin"
    /\ Len(request.files) = 4
    /\ pos_err = << <<1, 0>> >>
    /\ pos_ok = << <<3, 0>> >>
    /\ PdfPorNombre(request.files[1])
    /\ ~PdfPorNombre(request.files[2]) /\ ~ZipPorNombre(request.files[2])
    /\ ArchivoAbierto(request.files[4])

\* a step of the loops that reads the next upload or the next entry
TomaUnidad == pc \in {"bucle", "entradas"} /\ request' # request

\* C2: a step that takes a failing unit (an archive that is not valid or does
\* not open, a document that cannot be read or opened) appends exactly one
\* error, which names the unit, appends no record, and leaves the loop where
\* it was, ready for the next entry or upload; a step that takes a good
\* document appends its record and no error, whatever failed before it.
C2_AislamientoDeFallos ==
    [][ TomaUnidad =>
            LET f == request'.files[Len(request'.files)]
                e == f.entradas[Len(f.entradas)]
                arriba == pc = "bucle"
                falla == IF arriba
                         THEN \/ ZipPorNombre(f) /\ ~ArchivoAbierto(f)
                              \/ PdfPorNombre(f) /\ ~ZipPorNombre(f) /\ DocumentoFalla(f)
                         ELSE EntradaPdf(e) /\ DocumentoFalla(e)
                exito == IF arriba
                         THEN PdfPorNombre(f) /\ ~ZipPorNombre(f) /\ ~DocumentoFalla(f)
                         ELSE EntradaPdf(e) /\ ~DocumentoFalla(e)
                nombre == IF arriba THEN f.filename ELSE e.nombre
                contenido == IF arriba THEN f.contenido ELSE e.contenido
                ultimo == errores_proceso'[Len(errores_proceso')]
                nuevo == resultados_ok'[Len(resultados_ok')]
            IN  /\ IF arriba THEN i' = i + 1 /\ j' = j ELSE i' = i /\ j' = j + 1
                /\ falla =>
                    /\ Len(errores_proceso') = Len(errores_proceso) + 1
                    /\ SubSeq(errores_proceso', 1, Len(errores_proceso)) = errores_proceso
                    /\ IF arriba
                       THEN nombre \in {ultimo.item, ultimo.contenedor}
                       ELSE ultimo.item = nombre /\ ultimo.contenedor = f.filename
                    /\ resultados_ok' = resultados_ok
                    /\ pc' = pc
                /\ exito =>
                    /\ errores_proceso' = errores_proceso
                    /\ Len(resultados_ok') = Len(resultados_ok) + 1
                    /\ SubSeq(resultados_ok', 1, Len(resultados_ok)) = resultados_ok
                    /\ DOMAIN nuevo = ClavesFijas \cup {"Archivo"}
                    /\ nuevo["Archivo"] = nombre
                    /\ \A c \in ClavesFijas :
                            (CoincidenciasDe(contenido)[c] = <<>>) <=>
                            (nuevo[c] = <<"N","o"," ","e","n","c","o","n","t","r","a","d","o">>)
                    /\ pc' = pc
      ]_vars

\* the first entry of an archive failed; its sibling and the next upload
\* gave their records
C2_Testigo ==
    /\ pos_err = << <<1, 1>> >>
    /\ pos_ok = << <<1, 2>>, <<2, 0>> >>
    /\ Len(errores_proceso) = 1
    /\ Len(resultados_ok) = 2

\* C5: of an archive with N accepted .pdf entries and M other entries come at
\* most N records and exactly (N - records) errors, plus one error if the
\* archive itself is not valid or does not open; the M other entries give no
\* record and no error.
C5_RecorridoDeArchivo ==
    \A k \in DOMAIN request.files :
        LET f == request.files[k]
            N == Cardinality(AceptadasDe(f))
            registros == DelArchivo(pos_ok, k)
            errores == DelArchivo(pos_err, k)
            del_archivo == IF ArchivoAbierto(f) THEN 0 ELSE 1
        IN  ZipPorNombre(f) =>
                /\ registros <= N
                /\ errores = (N - registros) + del_archivo
                /\ Veces(pos_err, <<k, 0>>) = del_archivo
                /\ \A m \in DOMAIN f.entradas \ AceptadasDe(f) :
                        Veces(pos_ok, <<k, m>>) + Veces(pos_err, <<k, m>>) = 0

\* a closed archive of two accepted entries, one read and one failed, and one
\* entry of another type
C5_Testigo ==
    /\ pc = "bucle"
    /\ Len(request.files) = 1
    /\ ArchivoAbierto(request.files[1])
    /\ Len(request.files[1].entradas) = 3
    /\ Cardinality(AceptadasDe(request.files[1])) = 2
    /\ Len(pos_ok) = 1
    /\ Len(pos_err) = 1

\* the names of the documents that succeed, in the order of the input
RECURSIVE ExitosDeEntradas(_)
ExitosDeEntradas(entradas) ==
    IF entradas = <<>> THEN <<>>
    ELSE (IF EntradaPdf(Head(entradas)) /\ ~DocumentoFalla(Head(entradas))
          THEN <<Head(entradas).nombre>> ELSE <<>>)
         \o ExitosDeEntradas(Tail(entradas))

RECURSIVE ExitosDe(_)
ExitosDe(files) ==
    IF files = <<>> THEN <<>>
    ELSE (IF ArchivoAbierto(Head(files)) THEN ExitosDeEntradas(Head(files).entradas)
          ELSE IF PdfPorNombre(Head(files)) /\ ~ZipPorNombre(Head(files))
                  /\ ~DocumentoFalla(Head(files))
               THEN <<Head(files).filename>> ELSE <<>>)
         \o ExitosDe(Tail(files))

Antes(p, q) == p[1] < q[1] \/ (p[1] = q[1] /\ p[2] < q[2])

\* C6: the records list the documents that succeeded in the order of the
\* input: uploads in the order submitted, the entries of an archive in the
\* order listed at the place of the archive; the report keeps that order.
C6_OrdenDeEntrada ==
    /\ [n \in 1..Len(resultados_ok) |-> resultados_ok[n]["Archivo"]]
            = ExitosDe(request.files)
    /\ \A n \in 1..(Len(pos_ok) - 1) : Antes(pos_ok[n], pos_ok[n + 1])
    /\ (respuesta # <<>> /\ respuesta[1].success) =>
            respuesta[1].table_html[1].filas = resultados_ok

\* the record of an upload, then that of the second entry of an archive whose
\* first entry failed, both in the report
C6_Testigo ==
    /\ pc = "fin"
    /\ pos_ok = << <<1, 0>>, <<2, 2>> >>
    /\ pos_err = << <<2, 1>> >>
    /\ respuesta # <<>>
    /\ Len(respuesta[1].table_html[1].filas) = 2

\* a step in which process_files returns its response
Responde == pc' = "fin" /\ <<pc, respuesta>> # <<pc', respuesta'>>

\* C7: the response process_files returns reports failure exactly when there
\* is no record; then it has no table, the request stores no spreadsheet (it
\* leaves the session as it was), and its error list is not empty and holds
\* every collected error; otherwise it is a success with the table of the
\* records, which the request stores in the session, and exactly the
\* collected errors.
C7_RespuestaFinal ==
    [][ Responde =>
            LET r == respuesta'[1]
            IN  /\ respuesta' # <<>>
                /\ (~r.success) <=> (resultados_ok' = <<>>)
                /\ ~r.success =>
                        /\ r.table_html = <<>>
                        /\ session' = session
                        /\ r.errors # <<>>
                        /\ Len(r.errors) = Len(errores_proceso') + 1
                        /\ SubSeq(r.errors, 2, Len(r.errors)) = errores_proceso'
                /\ r.success =>
                        /\ r.table_html # <<>>
                        /\ r.table_html[1].filas = resultados_ok'
                        /\ Head(r.table_html[1].columnas) = "Archivo"
                        /\ r.errors = errores_proceso'
                        /\ session' = r.table_html
      ]_vars

\* every document of a batch failed, after an earlier batch had succeeded and
\* left its spreadsheet in the session
C7_Testigo ==
    /\ pc = "fin"
    /\ respuesta # <<>>
    /\ ~respuesta[1].success
    /\ Len(errores_proceso) = 3
    /\ Len(respuesta[1].errors) = 4
    /\ \A k \in DOMAIN request.files : PdfPorNombre(request.files[k])
    /\ leidas = 1
    /\ session # <<>>

\* C10: an upload is handled as an archive exactly when its name ends in
\* .zip and as a single document exactly when it ends in .pdf, in that case;
\* any other upload (X.PDF, X.ZIP, notes.txt) gives no record and no error.
\* An entry of an archive is processed exactly when its name ends in .pdf in
\* any case and does not start by __MACOSX; any other entry gives no record
\* and no error.
C10_Clasificacion ==
    [][ TomaUnidad =>
            LET f == request'.files[Len(request'.files)]
                e == f.entradas[Len(f.entradas)]
                ultimo == errores_proceso'[Len(errores_proceso')]
                nuevo == resultados_ok'[Len(resultados_ok')]
                hay_error == errores_proceso' # errores_proceso
                hay_registro == resultados_ok' # resultados_ok
                plantillas_zip == {"'{}' no es un archivo ZIP valido.",
                                   "Error al procesar el archivo ZIP '{}': {}"}
                como_archivo == \/ pc' = "entradas"
                                \/ hay_error /\ ultimo.plantilla \in plantillas_zip
                como_documento == \/ hay_registro /\ nuevo["Archivo"] = f.filename
                                  \/ hay_error /\ ultimo.plantilla \notin plantillas_zip
            IN  IF pc = "bucle"
                THEN /\ como_archivo <=> TerminaEn(f.filename, <<".", "z", "i", "p">>)
                     /\ como_documento <=> TerminaEn(f.filename, <<".", "p", "d", "f">>)
                     /\ (~como_archivo /\ ~como_documento) =>
                            /\ resultados_ok' = resultados_ok
                            /\ errores_proceso' = errores_proceso
                ELSE /\ (hay_registro \/ hay_error) <=> EntradaPdf(e)
                     /\ hay_registro => nuevo["Archivo"] = e.nombre
      ]_vars

\* X.PDF and X.ZIP were uploaded, then an archive whose entries notes.txt and
\* __MACOSX/s.pdf were skipped and whose entry S.PDF was read
C10_Testigo ==
    /\ pc = "entradas"
    /\ Len(request.files) = 3
    /\ request.files[1].filename = <<"b", ".", "P", "D", "F">>
    /\ request.files[2].filename = <<"d", ".", "Z", "I", "P">>
    /\ Len(request.files[3].entradas) = 1
    /\ request.files[3].entradas[1].nombre = <<"S", ".", "P", "D", "F">>
    /\ pos_ok = << <<3, 1>> >>
    /\ pos_err = <<>>

\* the text of a document whose pages that are short of 100 characters keep
\* their direct text when the OCR attempt raises
RECURSIVE TextoConRespaldo(_)
TextoConRespaldo(paginas) ==
    IF paginas = <<>> THEN <<>>
    ELSE (IF Len(Recortado(Head(paginas).directo)) < 100
             /\ Head(paginas).ocr.falla = "ninguna"
          THEN Head(paginas).ocr.texto
          ELSE Recortado(Head(paginas).directo))
         \o <<"\n">> \o TextoConRespaldo(Tail(paginas))

OcrFallaEn(doc) ==
    \E n \in DOMAIN doc.paginas :
        /\ Len(Recortado(doc.paginas[n].directo)) < 100
        /\ doc.paginas[n].ocr.falla # "ninguna"

\* the bytes of the model that open and have a page on which the OCR attempt
\* raises, and the text each is to give
ConFalloDeOcr ==
    {c \in {"texto", "ocr_falla", "render_falla", "roto"} :
        DocumentoDe(c).abre /\ OcrFallaEn(DocumentoDe(c))}

RespaldoDe == [c \in ConFalloDeOcr |-> TextoConRespaldo(DocumentoDe(c).paginas)]

\* the units of the batch read so far that are documents
DocumentosLeidos ==
    {[pos |-> <<k, 0>>, u |-> request.files[k]] :
        k \in {k \in DOMAIN request.files :
                PdfPorNombre(request.files[k]) /\ ~ZipPorNombre(request.files[k])}}
    \cup UNION {{[pos |-> <<k, m>>, u |-> request.files[k].entradas[m]] :
                    m \in AceptadasDe(request.files[k])} :
                k \in {k \in DOMAIN request.files : ArchivoAbierto(request.files[k])}}

\* C4: when rendering or OCR raises on a page shorter than 100 characters of
\* a document that opens, the page gives its trimmed direct text and one
\* newline, the other pages are processed as usual, the function returns the
\* text and no error, and the document gives a record and no entry of the
\* error list.
C4_FalloDeOcrAislado ==
    \A d \in DocumentosLeidos :
        (d.u.lectura = "ok" /\ d.u.contenido \in ConFalloDeOcr) =>
            /\ ExtraccionDe[d.u.contenido] =
                    [texto |-> <<RespaldoDe[d.u.contenido]>>, error |-> <<>>]
            /\ Veces(pos_ok, d.pos) = 1
            /\ Veces(pos_err, d.pos) = 0

\* an upload on which tesseract raised and an entry that could not be
\* rendered were both read: two records, no error
C4_Testigo ==
    /\ pc = "fin"
    /\ Len(request.files) = 2
    /\ request.files[1].contenido = "ocr_falla"
    /\ request.files[2].entradas # <<>>
    /\ request.files[2].entradas[1].contenido = "render_falla"
    /\ request.files[2].entradas[1].lectura = "ok"
    /\ pos_ok = << <<1, 0>>, <<2, 1>> >>
    /\ errores_proceso = <<>>
    /\ respuesta # <<>>
    /\ respuesta[1].success
    /\ respuesta[1].errors = <<>>

====
